---- MODULE Spec2Model ----
(***************************************************************************)
(* License validation and key release of Software-Shop.                   *)
(*                                                                          *)
(* The Registry (MongoDB collection 'licenses'), the software record, the  *)
(* server environment and the ledger (SoftwareLicense.sol) are the state;  *)
(* the server functions of src/src/lib/auth.ts, the get-key and            *)
(* delete-by-buyer routes and the functions of the contract are the        *)
(* operations.                                                              *)
(*                                                                          *)
(* Spec       : every handler runs to completion before the next starts.   *)
(* SpecConc   : handlers interleave at their await points.                 *)
(* SpecLedger : the contract alone, from its deployment.                   *)
(***************************************************************************)
EXTENDS Integers, Sequences, FiniteSets, TLC

VARIABLES
    licenses,   \* Registry: license id -> stored license document
    software,   \* the software document the licenses reference (or NoSoftware)
    env,        \* process.env: which settings are present
    owners,     \* ledger: token id -> holder (ZeroAddress = not minted / burned)
    last,       \* the last completed call or ledger transaction: arguments,
                \* state before, result
    procs,      \* the calls in flight (SpecConc)
    variant,           \* ledger: which copy of SoftwareLicense.sol is deployed
    nextTokenId,       \* ledger: _nextTokenId
    isLicenseBlocked,  \* ledger: _isLicenseBlocked
    licenseIpLock      \* ledger: _licenseIpLock

vars == <<licenses, software, env, owners, last, procs,
          variant, nextTokenId, isLicenseBlocked, licenseIpLock>>

\* The ledger apart from the holders.
ledgerVars == <<variant, nextTokenId, isLicenseBlocked, licenseIpLock>>

----------------------------------------------------------------------------
(* Bounds and value sets                                                    *)

\* Timestamps new Date() can return are 1..MaxDate; 0 stands for "field absent".
MaxDate == 2
\* Number of calls that may be in flight at once in SpecConc.
NumProcs == 2

NoDate == 0
Dates == 1..MaxDate
Procs == 1..NumProcs

\* The license documents of the Registry.
LicenseIds == {"L1"}
\* Strings ObjectId.isValid accepts: the stored ids and one id of no document.
ValidObjectIds == LicenseIds \cup {"L9"}
\* licenseId values a request can carry: "" is falsy, "zz" is no ObjectId.
RequestLicenseIds == ValidObjectIds \cup {"zz", ""}

DeviceIds == {"dev1", "dev2"}
RequestDeviceIds == DeviceIds \cup {""}

\* Addresses are sequences of characters, so that case conversion is computed.
ZeroAddress == <<"0", "0">>
\* The buyer's address as the ledger reports it (mixed-case checksum form).
Holder == <<"A", "b">>
\* walletAddress values a request can carry: <<>> is the empty string.
RequestAddresses == {<<"a", "b">>, <<"A", "B">>, <<"c", "d">>, <<>>}

Absent == "<absent>"
SoftwareId == "S1"
TheKey == "key-S1"
TheUrl == "ipfs-S1"

----------------------------------------------------------------------------
(* String.prototype.toLowerCase on the alphabet used here                   *)

LowerChar(c) ==
    CASE c = "A" -> "a"
      [] c = "B" -> "b"
      [] c = "C" -> "c"
      [] c = "D" -> "d"
      [] OTHER -> c

toLowerCase(s) == [i \in DOMAIN s |-> LowerChar(s[i])]

----------------------------------------------------------------------------
(* Documents                                                                *)

\* What findOne returns when no document matches (null), in the documents' shape.
NoLicense ==
    [id |-> "", softwareId |-> "", buyerAddress |-> <<>>, tokenId |-> 0,
     deviceId |-> "", status |-> "", reason |-> Absent, lastViolationDate |-> NoDate]

NoSoftware ==
    [id |-> "", fingerprintLock |-> FALSE, decryptionKey |-> "", fileUrl |-> ""]

\* The document recordLicensePurchase inserts, with the device binding and the
\* lifecycle status it may have by the time the calls modelled here arrive.
StoredLicense(id, dev, st) ==
    [id |-> id, softwareId |-> SoftwareId, buyerAddress |-> toLowerCase(Holder),
     tokenId |-> 0, deviceId |-> dev, status |-> st,
     reason |-> IF st = "blocked" THEN "Device violation" ELSE Absent,
     lastViolationDate |-> IF st = "blocked" THEN 1 ELSE NoDate]

findOneLicense(licenseId) ==
    IF licenseId \in DOMAIN licenses THEN licenses[licenseId] ELSE NoLicense

findOneSoftware(softwareId) ==
    IF software.id # "" /\ software.id = softwareId THEN software ELSE NoSoftware

ObjectIdIsValid(s) == s \in ValidObjectIds

----------------------------------------------------------------------------
(* Results and messages.  A message is the sequence of its string pieces,   *)
(* an interpolated value being a piece of its own.                          *)

Result(ok, msg, key, url) ==
    [success |-> ok, message |-> msg, key |-> key, fileUrl |-> url]

Fail(msg) == Result(FALSE, msg, "", "")
Ok(msg) == Result(TRUE, msg, "", "")

MsgKeyRequired == <<"License ID, Device ID, and Wallet Address are required.">>
MsgNoRpc == <<"The server is not configured to communicate with the blockchain.">>
MsgBadLicenseId == <<"Invalid license ID format.">>
MsgNoLicenseInDb == <<"License not found in the database.">>
MsgNotActive(status) ==
    <<"License is not active. Current status: ", status,
      ". Contact the seller for assistance.">>
MsgNoSoftware == <<"Could not find the associated software.">>
MsgNotOwner ==
    <<"Smart contract check failed: The connected wallet is not the owner of this license NFT.">>
MsgBurned ==
    <<"This license has been revoked and no longer exists on the blockchain.">>
MsgCouldNotVerify == <<"Could not verify license ownership on the blockchain.">>
MsgDeviceMismatch == <<"Device mismatch. This license is not bound to this device.">>
MsgNoKeyMaterial == <<"Could not find the software's decryption key or file URL.">>
MsgKeyRetrieved == <<"Key retrieved successfully.">>

\* The messages of bindDeviceToLicense (auth.ts 630-667).
MsgBindRequired == <<"License ID and Device ID are required.">>
MsgBindNoLicense == <<"License not found.">>
MsgBindNotRequired == <<"Device binding is not required for this license.">>
MsgAlreadyBound == <<"This license is already bound to another device.">>
MsgBound == <<"Device successfully bound to license.">>
MsgCorrectlyBound == <<"Device is already correctly bound.">>

----------------------------------------------------------------------------
(* The get-key endpoint (unnamed/part_002 4-28): the status code of the     *)
(* response is chosen by String.prototype.includes on the result's message. *)

\* The characters of each piece a getDecryptionKey or bindDeviceToLicense
\* failure message is made of.
Chars(piece) ==
    CASE piece = "License ID, Device ID, and Wallet Address are required." ->
           <<"L", "i", "c", "e", "n", "s", "e", " ", "I", "D", ",", " ", "D", "e", "v", "i",
             "c", "e", " ", "I", "D", ",", " ", "a", "n", "d", " ", "W", "a", "l", "l", "e",
             "t", " ", "A", "d", "d", "r", "e", "s", "s", " ", "a", "r", "e", " ", "r", "e",
             "q", "u", "i", "r", "e", "d", ".">>
      [] piece = "The server is not configured to communicate with the blockchain." ->
           <<"T", "h", "e", " ", "s", "e", "r", "v", "e", "r", " ", "i", "s", " ", "n", "o",
             "t", " ", "c", "o", "n", "f", "i", "g", "u", "r", "e", "d", " ", "t", "o", " ",
             "c", "o", "m", "m", "u", "n", "i", "c", "a", "t", "e", " ", "w", "i", "t", "h",
             " ", "t", "h", "e", " ", "b", "l", "o", "c", "k", "c", "h", "a", "i", "n", ".">>
      [] piece = "Invalid license ID format." ->
           <<"I", "n", "v", "a", "l", "i", "d", " ", "l", "i", "c", "e", "n", "s", "e", " ",
             "I", "D", " ", "f", "o", "r", "m", "a", "t", ".">>
      [] piece = "License not found in the database." ->
           <<"L", "i", "c", "e", "n", "s", "e", " ", "n", "o", "t", " ", "f", "o", "u", "n",
             "d", " ", "i", "n", " ", "t", "h", "e", " ", "d", "a", "t", "a", "b", "a", "s",
             "e", ".">>
      [] piece = "License is not active. Current status: " ->
           <<"L", "i", "c", "e", "n", "s", "e", " ", "i", "s", " ", "n", "o", "t", " ", "a",
             "c", "t", "i", "v", "e", ".", " ", "C", "u", "r", "r", "e", "n", "t", " ", "s",
             "t", "a", "t", "u", "s", ":", " ">>
      [] piece = ". Contact the seller for assistance." ->
           <<".", " ", "C", "o", "n", "t", "a", "c", "t", " ", "t", "h", "e", " ", "s", "e",
             "l", "l", "e", "r", " ", "f", "o", "r", " ", "a", "s", "s", "i", "s", "t", "a",
             "n", "c", "e", ".">>
      [] piece = "active" ->
           <<"a", "c", "t", "i", "v", "e">>
      [] piece = "blocked" ->
           <<"b", "l", "o", "c", "k", "e", "d">>
      [] piece = "revoked" ->
           <<"r", "e", "v", "o", "k", "e", "d">>
      [] piece = "deleted_by_user" ->
           <<"d", "e", "l", "e", "t", "e", "d", "_", "b", "y", "_", "u", "s", "e", "r">>
      [] piece = "Could not find the associated software." ->
           <<"C", "o", "u", "l", "d", " ", "n", "o", "t", " ", "f", "i", "n", "d", " ", "t",
             "h", "e", " ", "a", "s", "s", "o", "c", "i", "a", "t", "e", "d", " ", "s", "o",
             "f", "t", "w", "a", "r", "e", ".">>
      [] piece = "Smart contract check failed: The connected wallet is not the owner of this license NFT." ->
           <<"S", "m", "a", "r", "t", " ", "c", "o", "n", "t", "r", "a", "c", "t", " ", "c",
             "h", "e", "c", "k", " ", "f", "a", "i", "l", "e", "d", ":", " ", "T", "h", "e",
             " ", "c", "o", "n", "n", "e", "c", "t", "e", "d", " ", "w", "a", "l", "l", "e",
             "t", " ", "i", "s", " ", "n", "o", "t", " ", "t", "h", "e", " ", "o", "w", "n",
             "e", "r", " ", "o", "f", " ", "t", "h", "i", "s", " ", "l", "i", "c", "e", "n",
             "s", "e", " ", "N", "F", "T", ".">>
      [] piece = "This license has been revoked and no longer exists on the blockchain." ->
           <<"T", "h", "i", "s", " ", "l", "i", "c", "e", "n", "s", "e", " ", "h", "a", "s",
             " ", "b", "e", "e", "n", " ", "r", "e", "v", "o", "k", "e", "d", " ", "a", "n",
             "d", " ", "n", "o", " ", "l", "o", "n", "g", "e", "r", " ", "e", "x", "i", "s",
             "t", "s", " ", "o", "n", " ", "t", "h", "e", " ", "b", "l", "o", "c", "k", "c",
             "h", "a", "i", "n", ".">>
      [] piece = "Could not verify license ownership on the blockchain." ->
           <<"C", "o", "u", "l", "d", " ", "n", "o", "t", " ", "v", "e", "r", "i", "f", "y",
             " ", "l", "i", "c", "e", "n", "s", "e", " ", "o", "w", "n", "e", "r", "s", "h",
             "i", "p", " ", "o", "n", " ", "t", "h", "e", " ", "b", "l", "o", "c", "k", "c",
             "h", "a", "i", "n", ".">>
      [] piece = "Device mismatch. This license is not bound to this device." ->
           <<"D", "e", "v", "i", "c", "e", " ", "m", "i", "s", "m", "a", "t", "c", "h", ".",
             " ", "T", "h", "i", "s", " ", "l", "i", "c", "e", "n", "s", "e", " ", "i", "s",
             " ", "n", "o", "t", " ", "b", "o", "u", "n", "d", " ", "t", "o", " ", "t", "h",
             "i", "s", " ", "d", "e", "v", "i", "c", "e", ".">>
      [] piece = "Could not find the software's decryption key or file URL." ->
           <<"C", "o", "u", "l", "d", " ", "n", "o", "t", " ", "f", "i", "n", "d", " ", "t",
             "h", "e", " ", "s", "o", "f", "t", "w", "a", "r", "e", "'", "s", " ", "d", "e",
             "c", "r", "y", "p", "t", "i", "o", "n", " ", "k", "e", "y", " ", "o", "r", " ",
             "f", "i", "l", "e", " ", "U", "R", "L", ".">>
      [] piece = "Key retrieved successfully." ->
           <<"K", "e", "y", " ", "r", "e", "t", "r", "i", "e", "v", "e", "d", " ", "s", "u",
             "c", "c", "e", "s", "s", "f", "u", "l", "l", "y", ".">>
      [] piece = "License ID and Device ID are required." ->
           <<"L", "i", "c", "e", "n", "s", "e", " ", "I", "D", " ", "a", "n", "d", " ", "D",
             "e", "v", "i", "c", "e", " ", "I", "D", " ", "a", "r", "e", " ", "r", "e", "q",
             "u", "i", "r", "e", "d", ".">>
      [] piece = "License not found." ->
           <<"L", "i", "c", "e", "n", "s", "e", " ", "n", "o", "t", " ", "f", "o", "u", "n",
             "d", ".">>
      [] piece = "This license is already bound to another device." ->
           <<"T", "h", "i", "s", " ", "l", "i", "c", "e", "n", "s", "e", " ", "i", "s", " ",
             "a", "l", "r", "e", "a", "d", "y", " ", "b", "o", "u", "n", "d", " ", "t", "o",
             " ", "a", "n", "o", "t", "h", "e", "r", " ", "d", "e", "v", "i", "c", "e", ".">>

RECURSIVE Text(_)
\* The message as one string: its pieces joined.
Text(msg) == IF msg = <<>> THEN <<>> ELSE Chars(Head(msg)) \o Text(Tail(msg))

\* String.prototype.includes: needle occurs in text at some position.
includes(text, needle) ==
    \E i \in 1..(Len(text) - Len(needle) + 1) :
        SubSeq(text, i, i + Len(needle) - 1) = needle

NeedleBlocked == <<"b", "l", "o", "c", "k", "e", "d">>
NeedleRevoked == <<"r", "e", "v", "o", "k", "e", "d">>
NeedleOwner == <<"o", "w", "n", "e", "r">>
NeedleWalletAddress == <<"W", "a", "l", "l", "e", "t", " ", "a", "d", "d", "r", "e", "s", "s">>
NeedleAlreadyBound == <<"a", "l", "r", "e", "a", "d", "y", " ", "b", "o", "u", "n", "d">>
HttpOk == 200
HttpBadRequest == 400
HttpForbidden == 403
HttpConflict == 409
HttpServerError == 500
NoHttp == 0

\* The denials getDecryptionKey can return (auth.ts 713-774).
KeyDenials ==
    {MsgKeyRequired, MsgNoRpc, MsgBadLicenseId, MsgNoLicenseInDb, MsgNoSoftware,
     MsgNotOwner, MsgBurned, MsgCouldNotVerify, MsgDeviceMismatch, MsgNoKeyMaterial}
    \cup {MsgNotActive(status) : status \in {"blocked", "revoked", "deleted_by_user"}}

\* Lines 18-22: 403 when the message contains one of the four words, 500
\* otherwise; tabulated once for every denial.
getKeyDenialStatus ==
    [msg \in KeyDenials |->
        LET message == Text(msg)
        IN  IF \/ includes(message, NeedleBlocked)
               \/ includes(message, NeedleRevoked)
               \/ includes(message, NeedleOwner)
               \/ includes(message, NeedleWalletAddress)
            THEN HttpForbidden
            ELSE HttpServerError]

\* Lines 8-23: 400 for a missing parameter; 200 for a key; else by the message.
getKeyRoute(licenseId, deviceId, walletAddress, result) ==
    IF licenseId = "" \/ deviceId = "" \/ walletAddress = <<>>
    THEN HttpBadRequest
    ELSE IF result.success
    THEN HttpOk
    ELSE getKeyDenialStatus[result.message]

\* The failures bindDeviceToLicense can return (auth.ts 630-653).
BindDenials == {MsgBindRequired, MsgBadLicenseId, MsgBindNoLicense, MsgAlreadyBound}

\* bindDenialStatus that answers every failure alike.
bindDenialStatus_AllAlike == [msg \in BindDenials |-> HttpServerError]

\* The bind-device endpoint (unnamed/part_002 71-77): 409 when the message
\* contains "already bound", 500 otherwise; tabulated once for every failure.
bindDenialStatus ==
    [msg \in BindDenials |->
        IF includes(Text(msg), NeedleAlreadyBound) THEN HttpConflict
        ELSE HttpServerError]

\* Lines 63-78: 400 for a missing parameter; 200 for success; else by the message.
bindRoute(licenseId, deviceId, result) ==
    IF licenseId = "" \/ deviceId = "" THEN HttpBadRequest
    ELSE IF result.success THEN HttpOk
    ELSE bindDenialStatus[result.message]

\* The status code the caller of an operation sees over HTTP.
HttpStatus(op, licenseId, deviceId, walletAddress, result) ==
    IF op = "getDecryptionKey"
    THEN getKeyRoute(licenseId, deviceId, walletAddress, result)
    ELSE IF op = "bindDeviceToLicense"
    THEN bindRoute(licenseId, deviceId, result)
    ELSE NoHttp

----------------------------------------------------------------------------
(* Ledger reads (Ownership Oracle)                                          *)

NotQueried == [kind |-> "none", owner |-> ZeroAddress, reason |-> Absent]

\* ERC721.ownerOf reverts for a token without holder; the call may also fail
\* in transport, with or without a reason string.
ownerOf(tokenId) ==
    IF tokenId \in DOMAIN owners /\ owners[tokenId] # ZeroAddress
    THEN [kind |-> "ok", owner |-> owners[tokenId], reason |-> Absent]
    ELSE [kind |-> "revert", owner |-> ZeroAddress, reason |-> "ERC721: invalid token ID"]

NetworkErrors ==
    {[kind |-> "error", owner |-> ZeroAddress, reason |-> Absent],
     [kind |-> "error", owner |-> ZeroAddress, reason |-> "timeout"]}

OwnerOfResponses(tokenId) == {ownerOf(tokenId)} \cup NetworkErrors

\* contractError.reason && contractError.reason.includes('invalid token ID')
ReasonIsInvalidTokenId(resp) ==
    resp.reason # Absent /\ resp.reason = "ERC721: invalid token ID"

----------------------------------------------------------------------------
(* getDecryptionKey (auth.ts 711-786)                                       *)

\* A result no check has decided yet.
Pending == Result(FALSE, <<>>, "", "")

\* gdkEntry without the status check of lines 736-738.
gdkEntry_NoStatusCheck(licenseId, deviceId, walletAddress, lic) ==
    IF licenseId = "" \/ deviceId = "" \/ walletAddress = <<>> THEN Fail(MsgKeyRequired)
    ELSE IF ~env.rpcUrl THEN Fail(MsgNoRpc)
    ELSE IF ~ObjectIdIsValid(licenseId) THEN Fail(MsgBadLicenseId)
    ELSE IF lic = NoLicense THEN Fail(MsgNoLicenseInDb)
    ELSE Pending

\* Lines 712-738: arguments, configuration, id format, the license document
\* and its Registry status.
gdkEntry(licenseId, deviceId, walletAddress, lic) ==
    IF licenseId = "" \/ deviceId = "" \/ walletAddress = <<>> THEN Fail(MsgKeyRequired)
    ELSE IF ~env.rpcUrl THEN Fail(MsgNoRpc)
    ELSE IF ~ObjectIdIsValid(licenseId) THEN Fail(MsgBadLicenseId)
    ELSE IF lic = NoLicense THEN Fail(MsgNoLicenseInDb)
    ELSE IF lic.status # "active" THEN Fail(MsgNotActive(lic.status))
    ELSE Pending

\* Lines 740-743: the software document.
gdkSoftware(sw) ==
    IF sw = NoSoftware THEN Fail(MsgNoSoftware) ELSE Pending

\* gdkDrift taking every failed query for token non-existence.
gdkDrift_AnyError(resp) == resp.kind # "ok"

\* Lines 754-764: the catch of the ownership query.
gdkDrift(resp) == resp.kind # "ok" /\ ReasonIsInvalidTokenId(resp)

\* gdkOwnership without the comparison of lines 751-753.
gdkOwnership_NoOwnerCheck(walletAddress, resp) ==
    IF resp.kind = "ok" THEN Pending
    ELSE IF gdkDrift(resp) THEN Fail(MsgBurned)
    ELSE Fail(MsgCouldNotVerify)

\* Lines 749-764: the ownership query and its catch.
gdkOwnership(walletAddress, resp) ==
    IF resp.kind = "ok"
    THEN IF toLowerCase(resp.owner) # toLowerCase(walletAddress)
         THEN Fail(MsgNotOwner)
         ELSE Pending
    ELSE IF gdkDrift(resp) THEN Fail(MsgBurned)
    ELSE Fail(MsgCouldNotVerify)

\* gdkDevice without the comparison of lines 768-770.
gdkDevice_NoCheck(lic, sw, deviceId) == Pending

\* Lines 766-771: device lock validation.
gdkDevice(lic, sw, deviceId) ==
    IF sw.fingerprintLock /\ lic.deviceId # "" /\ lic.deviceId # deviceId
    THEN Fail(MsgDeviceMismatch)
    ELSE Pending

\* gdkRelease that remembers a key it has handed out and refuses the next
\* request.
gdkRelease_OnceOnly(sw) ==
    IF last.op = "getDecryptionKey" /\ last.result.success THEN Fail(MsgNoKeyMaterial)
    ELSE IF sw.decryptionKey = "" \/ sw.fileUrl = "" THEN Fail(MsgNoKeyMaterial)
    ELSE Result(TRUE, MsgKeyRetrieved, sw.decryptionKey, sw.fileUrl)

\* Lines 773-780: the key material and the successful return.
gdkRelease(sw) ==
    IF sw.decryptionKey = "" \/ sw.fileUrl = "" THEN Fail(MsgNoKeyMaterial)
    ELSE Result(TRUE, MsgKeyRetrieved, sw.decryptionKey, sw.fileUrl)

\* Lines 749-780, once the license and the software have been read.
gdkChain(lic, sw, deviceId, walletAddress, resp) ==
    IF gdkOwnership(walletAddress, resp) # Pending THEN gdkOwnership(walletAddress, resp)
    ELSE IF gdkDevice(lic, sw, deviceId) # Pending THEN gdkDevice(lic, sw, deviceId)
    ELSE gdkRelease(sw)

\* gdkDriftWrite recording the reason and leaving the status as it is.
gdkDriftWrite_KeepsStatus(doc, date) ==
    [doc EXCEPT !.reason = "Token does not exist (burned)", !.lastViolationDate = date]

\* The update of lines 757-760.
gdkDriftWrite(doc, date) ==
    [doc EXCEPT !.status = "revoked", !.reason = "Token does not exist (burned)",
                !.lastViolationDate = date]

\* updateOne({_id}, ...): the matched document becomes doc; no document, no change.
updateOneLicense(store, licenseId, doc) ==
    IF licenseId \in DOMAIN store
    THEN [store EXCEPT ![licenseId] = doc]
    ELSE store

Called(op, licenseId, deviceId, walletAddress, resp, result) ==
    [op |-> op, licenseId |-> licenseId, deviceId |-> deviceId,
     walletAddress |-> walletAddress, before |-> licenses,
     ownersBefore |-> owners, resp |-> resp, result |-> result,
     http |-> HttpStatus(op, licenseId, deviceId, walletAddress, result),
     tokenId |-> 0, to |-> ZeroAddress, ipAddress |-> "", returned |-> FALSE,
     nextBefore |-> nextTokenId, blockedBefore |-> isLicenseBlocked,
     ipLockBefore |-> licenseIpLock]

GetDecryptionKey(licenseId, deviceId, walletAddress) ==
    LET lic == findOneLicense(licenseId)
        sw == findOneSoftware(lic.softwareId)
        early == IF gdkEntry(licenseId, deviceId, walletAddress, lic) # Pending
                 THEN gdkEntry(licenseId, deviceId, walletAddress, lic)
                 ELSE gdkSoftware(sw)
    IN  \E resp \in (IF early = Pending THEN OwnerOfResponses(lic.tokenId)
                     ELSE {NotQueried}) :
        \E date \in (IF early = Pending /\ gdkDrift(resp) THEN Dates ELSE {NoDate}) :
            LET result == IF early # Pending THEN early
                          ELSE gdkChain(lic, sw, deviceId, walletAddress, resp)
            IN  /\ licenses' = IF early = Pending /\ gdkDrift(resp)
                               THEN updateOneLicense(licenses, licenseId, gdkDriftWrite(lic, date))
                               ELSE licenses
                /\ last' = Called("getDecryptionKey", licenseId, deviceId,
                                  walletAddress, resp, result)
                /\ UNCHANGED <<software, env, owners, procs, ledgerVars>>

----------------------------------------------------------------------------
(* bindDeviceToLicense (auth.ts 628-672)                                    *)

\* Lines 629-643: arguments, id format and the license document.
bindEntry(licenseId, deviceId, lic) ==
    IF licenseId = "" \/ deviceId = "" THEN Fail(MsgBindRequired)
    ELSE IF ~ObjectIdIsValid(licenseId) THEN Fail(MsgBadLicenseId)
    ELSE IF lic = NoLicense THEN Fail(MsgBindNoLicense)
    ELSE Pending

\* bindCheck without the comparison of lines 651-654.
bindCheck_NoMismatch(lic, sw, deviceId) ==
    IF ~sw.fingerprintLock THEN Ok(MsgBindNotRequired) ELSE Pending

\* bindCheck without the early return of lines 646-649.
bindCheck_IgnoresRules(lic, sw, deviceId) ==
    IF lic.deviceId # "" /\ lic.deviceId # deviceId THEN Fail(MsgAlreadyBound)
    ELSE Pending

\* bindCheck that rejects every license already bound, also to this device.
bindCheck_RejectsBound(lic, sw, deviceId) ==
    IF ~sw.fingerprintLock THEN Ok(MsgBindNotRequired)
    ELSE IF lic.deviceId # "" THEN Fail(MsgAlreadyBound)
    ELSE Pending

\* Lines 645-654: the licensing rules and the bound device, as read.
bindCheck(lic, sw, deviceId) ==
    IF ~sw.fingerprintLock THEN Ok(MsgBindNotRequired)
    ELSE IF lic.deviceId # "" /\ lic.deviceId # deviceId THEN Fail(MsgAlreadyBound)
    ELSE Pending

\* Line 656: the update is issued when the document read holds no device.
bindWrites(lic) == lic.deviceId = ""

\* Lines 658-661: updateOne({_id}, {$set: {deviceId}}) on the stored document.
bindWrite(doc, deviceId) == [doc EXCEPT !.deviceId = deviceId]

\* result.modifiedCount of that update: the document exists and changes.
bindModified(store, licenseId, deviceId) ==
    licenseId \in DOMAIN store /\ store[licenseId].deviceId # deviceId

\* Lines 656-667.
bindFinish(lic, store, licenseId, deviceId) ==
    IF bindWrites(lic) /\ bindModified(store, licenseId, deviceId)
    THEN Ok(MsgBound)
    ELSE Ok(MsgCorrectlyBound)

BindDeviceToLicense(licenseId, deviceId) ==
    LET lic == findOneLicense(licenseId)
        sw == findOneSoftware(lic.softwareId)
        early == IF bindEntry(licenseId, deviceId, lic) # Pending
                 THEN bindEntry(licenseId, deviceId, lic)
                 ELSE bindCheck(lic, sw, deviceId)
    IN  /\ licenses' = IF early = Pending /\ bindWrites(lic)
                       THEN updateOneLicense(licenses, licenseId, bindWrite(lic, deviceId))
                       ELSE licenses
        /\ last' = Called("bindDeviceToLicense", licenseId, deviceId, <<>>, NotQueried,
                          IF early # Pending THEN early
                          ELSE bindFinish(lic, licenses, licenseId, deviceId))
        /\ UNCHANGED <<software, env, owners, procs, ledgerVars>>

----------------------------------------------------------------------------
(* Ledger contract (SoftwareLicense.sol, in its two copies: contracts/ and  *)
(* workspace/my-smart-contract/contracts/).  The inherited ERC721 and        *)
(* Ownable functions behave as in the OpenZeppelin release both copies       *)
(* import (the one with _update and Ownable(initialOwner)); approvals and    *)
(* transfer of the contract's ownership are not modelled.                    *)

\* The account Ownable was constructed with; the server signs with its key.
ContractOwner == <<"0", "w">>
\* An account that is neither the contract owner nor the first buyer.
Other == <<"c", "d">>
\* Token ids the model mints: 0 .. MaxTokens - 1.
MaxTokens == 2
TokenIds == 0..(MaxTokens - 1)
Variants == {"contracts", "workspace"}
IpAddresses == {"", "10.0.0.1"}
\* The strings a caller of validateLicense supplies.
SuppliedIpAddresses == IpAddresses \cup {"10.0.0.2"}

\* _exists(tokenId)
exists(tokenId) == tokenId \in DOMAIN owners /\ owners[tokenId] # ZeroAddress

\* The outcome of a call: whether it went through, the revert reason, and the
\* holders it leaves.
Reverted(reason) == [ok |-> FALSE, reason |-> reason, owners |-> owners]
Updated(newOwners) == [ok |-> TRUE, reason |-> Absent, owners |-> newOwners]

\* ERC721._update: _checkAuthorized when auth is given, then the write.
superUpdate(to, tokenId, auth) ==
    IF auth # ZeroAddress /\ owners[tokenId] = ZeroAddress
    THEN Reverted("ERC721NonexistentToken")
    ELSE IF auth # ZeroAddress /\ owners[tokenId] # auth
    THEN Reverted("ERC721InsufficientApproval")
    ELSE Updated([owners EXCEPT ![tokenId] = to])

\* _update without the require of lines 65 / 133.
update_Transferable(to, tokenId, auth) ==
    IF variant = "contracts"
    THEN superUpdate(to, tokenId, auth)
    ELSE IF ownerOf(tokenId).kind # "ok"
    THEN Reverted(ownerOf(tokenId).reason)
    ELSE superUpdate(to, tokenId, auth)

\* _update: contracts/ lines 58-68 read the holder with _ownerOf; workspace/
\* lines 124-136 read it with ownerOf, which reverts for a token without holder.
update(to, tokenId, auth) ==
    IF variant = "contracts"
    THEN IF owners[tokenId] # ZeroAddress /\ to # ZeroAddress
         THEN Reverted("Tokens are non-transferable and can only be burned.")
         ELSE superUpdate(to, tokenId, auth)
    ELSE IF ownerOf(tokenId).kind # "ok"
    THEN Reverted(ownerOf(tokenId).reason)
    ELSE IF to # ZeroAddress
    THEN Reverted("SFTL: This license token is non-transferable.")
    ELSE superUpdate(to, tokenId, auth)

\* ERC721._safeMint for a receiver that is an account.
safeMint(to, tokenId) ==
    IF to = ZeroAddress THEN Reverted("ERC721InvalidReceiver")
    ELSE IF ~update(to, tokenId, ZeroAddress).ok THEN update(to, tokenId, ZeroAddress)
    ELSE IF owners[tokenId] # ZeroAddress THEN Reverted("ERC721InvalidSender")
    ELSE update(to, tokenId, ZeroAddress)

\* ERC721.transferFrom
transferFrom(sender, from, to, tokenId) ==
    IF to = ZeroAddress THEN Reverted("ERC721InvalidReceiver")
    ELSE IF ~update(to, tokenId, sender).ok THEN update(to, tokenId, sender)
    ELSE IF owners[tokenId] # from THEN Reverted("ERC721IncorrectOwner")
    ELSE update(to, tokenId, sender)

\* mintLicense (contracts/ 39-52, workspace/ 44-58): onlyOwner, then the
\* mint of token _nextTokenId.
mintLicense(sender, buyer) ==
    IF sender # ContractOwner THEN Reverted("OwnableUnauthorizedAccount")
    ELSE safeMint(buyer, nextTokenId)

\* revokeLicense that burns without require(_exists(tokenId)).
contractRevokeLicense_NoExistsCheck(sender, tokenId) ==
    IF sender # ContractOwner
    THEN [ok |-> FALSE, reason |-> "OwnableUnauthorizedAccount", owners |-> owners]
    ELSE [ok |-> TRUE, reason |-> Absent,
          owners |-> [owners EXCEPT ![tokenId] = ZeroAddress]]

\* onlyOwner, require(_exists(tokenId)), _burn(tokenId): the outcome of a call.
contractRevokeLicense(sender, tokenId) ==
    IF sender # ContractOwner
    THEN [ok |-> FALSE, reason |-> "OwnableUnauthorizedAccount", owners |-> owners]
    ELSE IF ~exists(tokenId)
    THEN [ok |-> FALSE, reason |-> "ERC721: token nonexistent", owners |-> owners]
    ELSE [ok |-> TRUE, reason |-> Absent,
          owners |-> [owners EXCEPT ![tokenId] = ZeroAddress]]

\* blockLicense (contracts/ 87-90, workspace/ 65-68): onlyOwner, then the write.
blockLicense(sender, tokenId) ==
    IF sender # ContractOwner THEN Reverted("OwnableUnauthorizedAccount")
    ELSE Updated(owners)

\* The record of a transaction: the sender (as walletAddress), the token, the
\* receiver, the outcome and the ledger before it.
LedgerCall(fn, sender, tokenId, to, outcome) ==
    [Called(fn, "", "", sender, NotQueried,
            IF outcome.ok THEN Ok(<<>>) ELSE Fail(<<outcome.reason>>))
        EXCEPT !.tokenId = tokenId, !.to = to]

\* A mintLicense transaction; a reverted one leaves the contract as it was.
MintLicense(sender, buyer, ipAddress) ==
    /\ nextTokenId < MaxTokens
    /\ LET outcome == mintLicense(sender, buyer)
       IN  /\ owners' = outcome.owners
           /\ nextTokenId' = IF outcome.ok THEN nextTokenId + 1 ELSE nextTokenId
           /\ licenseIpLock' = IF outcome.ok /\ ipAddress # ""
                               THEN [licenseIpLock EXCEPT ![nextTokenId] = ipAddress]
                               ELSE licenseIpLock
           /\ last' = LedgerCall("contract.mintLicense", sender, nextTokenId, buyer, outcome)
    /\ UNCHANGED <<licenses, software, env, procs, variant, isLicenseBlocked>>

\* A blockLicense transaction.
BlockLicense(sender, tokenId, isBlocked) ==
    /\ LET outcome == blockLicense(sender, tokenId)
       IN  /\ isLicenseBlocked' = IF outcome.ok
                                  THEN [isLicenseBlocked EXCEPT ![tokenId] = isBlocked]
                                  ELSE isLicenseBlocked
           /\ last' = LedgerCall("contract.blockLicense", sender, tokenId, ZeroAddress,
                                  outcome)
    /\ UNCHANGED <<licenses, software, env, owners, procs, variant, nextTokenId,
                   licenseIpLock>>

\* A transferFrom transaction.
TransferFrom(sender, from, to, tokenId) ==
    /\ LET outcome == transferFrom(sender, from, to, tokenId)
       IN  /\ owners' = outcome.owners
           /\ last' = LedgerCall("contract.transferFrom", sender, tokenId, to, outcome)
    /\ UNCHANGED <<licenses, software, env, procs, variant, nextTokenId,
                   isLicenseBlocked, licenseIpLock>>

\* validateLicense that does not look at the blocked flag.
validateLicense_IgnoresBlocked(tokenId, ipAddress) ==
    IF ~exists(tokenId)
    THEN [ok |-> FALSE, reason |-> "License does not exist.", returned |-> FALSE]
    ELSE IF licenseIpLock[tokenId] # "" /\ licenseIpLock[tokenId] # ipAddress
    THEN [ok |-> TRUE, reason |-> Absent, returned |-> FALSE]
    ELSE [ok |-> TRUE, reason |-> Absent, returned |-> TRUE]

\* validateLicense (contracts/ 98-116, workspace/ 88-111): require(_exists),
\* false for a blocked token, false for a lock whose keccak256 differs from
\* that of the supplied string, else true.
validateLicense(tokenId, ipAddress) ==
    IF ~exists(tokenId)
    THEN [ok |-> FALSE, reason |-> "License does not exist.", returned |-> FALSE]
    ELSE IF isLicenseBlocked[tokenId]
    THEN [ok |-> TRUE, reason |-> Absent, returned |-> FALSE]
    ELSE IF licenseIpLock[tokenId] # "" /\ licenseIpLock[tokenId] # ipAddress
    THEN [ok |-> TRUE, reason |-> Absent, returned |-> FALSE]
    ELSE [ok |-> TRUE, reason |-> Absent, returned |-> TRUE]

\* A validateLicense call (a view function: it returns and writes nothing).
ValidateLicense(sender, tokenId, ipAddress) ==
    /\ last' = [LedgerCall("contract.validateLicense", sender, tokenId, ZeroAddress,
                           validateLicense(tokenId, ipAddress))
                   EXCEPT !.ipAddress = ipAddress,
                          !.returned = validateLicense(tokenId, ipAddress).returned]
    /\ UNCHANGED <<licenses, software, env, owners, procs, ledgerVars>>

\* A revokeLicense transaction sent to the contract from outside the server.
ContractRevokeLicense(sender, tokenId) ==
    /\ owners' = contractRevokeLicense(sender, tokenId).owners
    /\ last' = LedgerCall("contract.revokeLicense", sender, tokenId, ZeroAddress,
                          contractRevokeLicense(sender, tokenId))
    /\ UNCHANGED <<licenses, software, env, procs, variant, nextTokenId,
                   isLicenseBlocked, licenseIpLock>>

----------------------------------------------------------------------------
(* revokeLicense (auth.ts 822-857)                                          *)

MsgRevokeNoConfig == <<"Server is not configured for blockchain transactions.">>
MsgInvalidLicenseId == <<"Invalid license ID.">>
MsgRevokeFailed(why) == <<"Failed to revoke license: ", why>>
MsgRevoked(tokenId) == <<"License ", ToString(tokenId), " has been permanently revoked.">>

\* What contract.revokeLicense(...) followed by tx.wait() can do: the
\* transaction is confirmed, the send fails in transport, or the transaction
\* is mined and waiting for the receipt fails.
TxOutcomes == {"confirmed", "send_error", "wait_error"}

\* Lines 823-837.
revokeEntry(licenseId, lic) ==
    IF ~env.sellerKey \/ ~env.rpcUrl THEN Fail(MsgRevokeNoConfig)
    ELSE IF licenseId = "" \/ ~ObjectIdIsValid(licenseId) THEN Fail(MsgInvalidLicenseId)
    ELSE IF lic = NoLicense THEN Fail(MsgBindNoLicense)
    ELSE Pending

\* What the call record keeps of the transaction.
TxResponse(tx) == [kind |-> tx, owner |-> ZeroAddress, reason |-> Absent]

\* revokeLedger with a transaction that never burns.
revokeLedger_NoBurn(tokenId, tx) == owners

\* Lines 844-845: the ledger as the transaction leaves it.
revokeLedger(tokenId, tx) ==
    IF tx = "send_error" THEN owners
    ELSE contractRevokeLicense(ContractOwner, tokenId).owners

\* revokeConfirmed without the throw of tx.wait() (line 845).
revokeConfirmed_IgnoresWait(tokenId, tx) ==
    tx # "send_error" /\ contractRevokeLicense(ContractOwner, tokenId).ok

\* Lines 844-856: does the call reach the Registry update?
revokeConfirmed(tokenId, tx) ==
    tx = "confirmed" /\ contractRevokeLicense(ContractOwner, tokenId).ok

\* Lines 847-850.
revokeWrite(doc) == [doc EXCEPT !.status = "revoked", !.reason = "Seller revoked"]

\* Lines 852-856.
revokeFinish(tokenId, tx) ==
    IF revokeConfirmed(tokenId, tx) THEN Ok(MsgRevoked(tokenId))
    ELSE IF tx = "send_error" THEN Fail(MsgRevokeFailed("network error"))
    ELSE IF ~contractRevokeLicense(ContractOwner, tokenId).ok
    THEN Fail(MsgRevokeFailed(contractRevokeLicense(ContractOwner, tokenId).reason))
    ELSE Fail(MsgRevokeFailed("timeout"))

RevokeLicense(licenseId) ==
    LET lic == findOneLicense(licenseId)
        early == revokeEntry(licenseId, lic)
    IN  \E tx \in (IF early = Pending THEN TxOutcomes ELSE {"none"}) :
            /\ owners' = IF early = Pending THEN revokeLedger(lic.tokenId, tx) ELSE owners
            /\ licenses' = IF early = Pending /\ revokeConfirmed(lic.tokenId, tx)
                           THEN updateOneLicense(licenses, licenseId, revokeWrite(lic))
                           ELSE licenses
            /\ last' = Called("revokeLicense", licenseId, "", <<>>, TxResponse(tx),
                              IF early # Pending THEN early
                              ELSE revokeFinish(lic.tokenId, tx))
            /\ UNCHANGED <<software, env, procs, ledgerVars>>

----------------------------------------------------------------------------
(* reactivateLicense (auth.ts 864-893)                                      *)

MsgCannotReactivate == <<"Cannot reactivate a revoked (burned) license.">>
MsgReactivated == <<"License has been reactivated.">>

\* reactivateEntry without the check of lines 878-880.
reactivateEntry_NoRevokedCheck(licenseId, lic) ==
    IF licenseId = "" \/ ~ObjectIdIsValid(licenseId) THEN Fail(MsgInvalidLicenseId)
    ELSE IF lic = NoLicense THEN Fail(MsgBindNoLicense)
    ELSE Pending

\* Lines 865-880.
reactivateEntry(licenseId, lic) ==
    IF licenseId = "" \/ ~ObjectIdIsValid(licenseId) THEN Fail(MsgInvalidLicenseId)
    ELSE IF lic = NoLicense THEN Fail(MsgBindNoLicense)
    ELSE IF lic.status = "revoked" THEN Fail(MsgCannotReactivate)
    ELSE Pending

\* reactivateWrite that also clears the device binding.
reactivateWrite_ClearsDevice(doc) ==
    [doc EXCEPT !.status = "active", !.reason = Absent, !.lastViolationDate = NoDate,
                !.deviceId = ""]

\* Lines 882-885: $set status, $unset reason and lastViolationDate.
reactivateWrite(doc) ==
    [doc EXCEPT !.status = "active", !.reason = Absent, !.lastViolationDate = NoDate]

ReactivateLicense(licenseId) ==
    LET lic == findOneLicense(licenseId)
        early == reactivateEntry(licenseId, lic)
    IN  /\ licenses' = IF early = Pending
                       THEN updateOneLicense(licenses, licenseId, reactivateWrite(lic))
                       ELSE licenses
        /\ last' = Called("reactivateLicense", licenseId, "", <<>>, NotQueried,
                          IF early # Pending THEN early ELSE Ok(MsgReactivated))
        /\ UNCHANGED <<software, env, owners, procs, ledgerVars>>

----------------------------------------------------------------------------
(* POST /api/license/delete-by-buyer (manage/[softwareId]/page.tsx 362-405) *)

MsgDeleteMissing == <<"Missing licenseId or walletAddress">>
MsgBadWallet == <<"Invalid wallet address format.">>
MsgNoPermission == <<"License not found or you do not have permission to modify it.">>
MsgRemoved == <<"License has been removed.">>
MsgNotUpdated == <<"Failed to update the license status.">>

\* ethers.isAddress: the length of an address, hexadecimal digits only.
HexDigits == {"0", "a", "b", "c", "d", "A", "B", "C", "D"}
isAddress(a) == Len(a) = Len(ZeroAddress) /\ \A i \in DOMAIN a : a[i] \in HexDigits

\* findOneLicenseOfBuyer with the filter {_id} alone.
findOneLicenseOfBuyer_AnyBuyer(licenseId, walletAddress) == findOneLicense(licenseId)

\* Lines 381-384: findOne({_id, buyerAddress: walletAddress.toLowerCase()}).
findOneLicenseOfBuyer(licenseId, walletAddress) ==
    IF findOneLicense(licenseId).buyerAddress = toLowerCase(walletAddress)
    THEN findOneLicense(licenseId)
    ELSE NoLicense

\* Lines 366-388.
deleteEntry(licenseId, walletAddress, lic) ==
    IF licenseId = "" \/ walletAddress = <<>> THEN Fail(MsgDeleteMissing)
    ELSE IF ~ObjectIdIsValid(licenseId) THEN Fail(MsgBadLicenseId)
    ELSE IF ~isAddress(walletAddress) THEN Fail(MsgBadWallet)
    ELSE IF lic = NoLicense THEN Fail(MsgNoPermission)
    ELSE Pending

\* Lines 390-393.
deleteWrite(doc) == [doc EXCEPT !.status = "deleted_by_user"]

\* Lines 395-399: result.modifiedCount > 0.
deleteFinish(store, licenseId) ==
    IF licenseId \in DOMAIN store /\ store[licenseId].status # "deleted_by_user"
    THEN Ok(MsgRemoved)
    ELSE Fail(MsgNotUpdated)

DeleteByBuyer(licenseId, walletAddress) ==
    LET lic == findOneLicenseOfBuyer(licenseId, walletAddress)
        early == deleteEntry(licenseId, walletAddress, lic)
    IN  /\ licenses' = IF early = Pending
                       THEN updateOneLicense(licenses, licenseId, deleteWrite(lic))
                       ELSE licenses
        /\ last' = Called("deleteByBuyer", licenseId, "", walletAddress, NotQueried,
                          IF early # Pending THEN early
                          ELSE deleteFinish(licenses, licenseId))
        /\ UNCHANGED <<software, env, owners, procs, ledgerVars>>

----------------------------------------------------------------------------
(* Initial state and the sequential specification                           *)

\* Software documents: with or without device locking; with the key material
\* uploadSoftware stores, or with one of its two fields empty.
SoftwareDocs ==
    {[id |-> SoftwareId, fingerprintLock |-> b, decryptionKey |-> m[1], fileUrl |-> m[2]] :
        b \in BOOLEAN, m \in {<<TheKey, TheUrl>>, <<"", TheUrl>>, <<TheKey, "">>}}

NoCall ==
    [op |-> "none", licenseId |-> "", deviceId |-> "", walletAddress |-> <<>>,
     before |-> [l \in LicenseIds |-> NoLicense],
     ownersBefore |-> [t \in TokenIds |-> ZeroAddress],
     resp |-> NotQueried, result |-> Pending, http |-> NoHttp,
     tokenId |-> 0, to |-> ZeroAddress, ipAddress |-> "", returned |-> FALSE,
     nextBefore |-> 0, blockedBefore |-> [t \in TokenIds |-> FALSE],
     ipLockBefore |-> [t \in TokenIds |-> ""]]

IdleProc ==
    [pc |-> "idle", op |-> "none", licenseId |-> "", deviceId |-> "",
     walletAddress |-> <<>>, lic |-> NoLicense, sw |-> NoSoftware,
     resp |-> NotQueried, result |-> Pending, statusAtReturn |-> ""]

\* Each license was minted to Holder as token 0 and recorded by
\* recordLicensePurchase (auth.ts 520-530: deviceId "", status 'active'); a
\* stored license may since have been blocked.  The software document may be
\* gone (deleteUserAccount, auth.ts 483, deletes it and keeps the licenses).
Init ==
    /\ \E st \in {"active", "blocked"} :
           licenses = [l \in LicenseIds |-> StoredLicense(l, "", st)]
    /\ software \in SoftwareDocs \cup {NoSoftware}
    /\ env \in [rpcUrl : BOOLEAN, sellerKey : BOOLEAN]
    /\ owners = [t \in TokenIds |-> IF t = 0 THEN Holder ELSE ZeroAddress]
    /\ last = NoCall
    /\ procs = [p \in Procs |-> IdleProc]
    /\ variant = "contracts"
    /\ nextTokenId = 1
    /\ isLicenseBlocked = [t \in TokenIds |-> FALSE]
    /\ licenseIpLock = [t \in TokenIds |-> ""]

\* The requests the model sends: every combination of well-formed arguments,
\* and each malformed argument in turn with the others well-formed.
Malformed(l, d, w) ==
    (IF l \in {"L9", "zz", ""} THEN 1 ELSE 0) + (IF d = "" THEN 1 ELSE 0)
    + (IF w \in {<<>>, <<"z", "z">>} THEN 1 ELSE 0)

WellFormed(l, d, w) == Malformed(l, d, w) <= 1

KeyRequests ==
    {r \in RequestLicenseIds \X RequestDeviceIds \X RequestAddresses :
        WellFormed(r[1], r[2], r[3])}

BindRequests ==
    {r \in RequestLicenseIds \X RequestDeviceIds : WellFormed(r[1], r[2], Holder)}

DeleteRequests ==
    {r \in RequestLicenseIds \X (RequestAddresses \cup {<<"z", "z">>}) :
        WellFormed(r[1], "dev1", r[2])}

Next ==
    \/ \E r \in KeyRequests : GetDecryptionKey(r[1], r[2], r[3])
    \/ \E r \in BindRequests : BindDeviceToLicense(r[1], r[2])
    \/ \E l \in RequestLicenseIds : RevokeLicense(l)
    \/ \E l \in RequestLicenseIds : ReactivateLicense(l)
    \/ \E r \in DeleteRequests : DeleteByBuyer(r[1], r[2])
    \/ \E s \in {ContractOwner, Holder}, t \in TokenIds : ContractRevokeLicense(s, t)

Spec == Init /\ [][Next]_vars

----------------------------------------------------------------------------
(* The ledger on its own, from the deployment of either copy of the         *)
(* contract: nothing minted, nothing sold.                                  *)

InitLedger ==
    /\ licenses = [l \in LicenseIds |-> NoLicense]
    /\ software = NoSoftware
    /\ env = [rpcUrl |-> TRUE, sellerKey |-> TRUE]
    /\ owners = [t \in TokenIds |-> ZeroAddress]
    /\ last = NoCall
    /\ procs = [p \in Procs |-> IdleProc]
    /\ variant \in Variants
    /\ nextTokenId = 0
    /\ isLicenseBlocked = [t \in TokenIds |-> FALSE]
    /\ licenseIpLock = [t \in TokenIds |-> ""]

Senders == {ContractOwner, Holder, Other}
Receivers == {Holder, Other, ZeroAddress}

NextLedger ==
    \/ \E s \in Senders, b \in Receivers, ip \in IpAddresses : MintLicense(s, b, ip)
    \/ \E s \in Senders, t \in TokenIds, b \in BOOLEAN : BlockLicense(s, t, b)
    \/ \E s \in Senders, f \in {Holder, Other}, to \in Receivers, t \in TokenIds :
           TransferFrom(s, f, to, t)
    \/ \E s \in Senders, t \in TokenIds : ContractRevokeLicense(s, t)
    \/ \E s \in Senders, t \in TokenIds, ip \in SuppliedIpAddresses :
           ValidateLicense(s, t, ip)

SpecLedger == InitLedger /\ [][NextLedger]_vars

----------------------------------------------------------------------------
(* The interleaved specification: calls in flight, one step per await       *)

\* The locals of a call in flight: arguments, the documents it has read, the
\* answer of the ledger, the result once there is one, and the status the
\* Registry held for the license at the moment the result was produced.
Proc(pc, op, licenseId, deviceId, walletAddress, lic, result) ==
    [pc |-> pc, op |-> op, licenseId |-> licenseId, deviceId |-> deviceId,
     walletAddress |-> walletAddress, lic |-> lic, sw |-> NoSoftware,
     resp |-> NotQueried, result |-> result,
     statusAtReturn |-> IF pc = "done" THEN findOneLicense(licenseId).status ELSE ""]

\* The call of p ends with this result while the Registry is store.
Finish(p, store, result) ==
    [procs[p] EXCEPT !.pc = "done", !.result = result,
                     !.statusAtReturn = IF procs[p].licenseId \in DOMAIN store
                                        THEN store[procs[p].licenseId].status
                                        ELSE ""]

\* bindDeviceToLicense up to the await of line 640 (findOne on licenses).
BindStart(p, licenseId, deviceId) ==
    /\ procs[p].pc = "idle"
    /\ LET lic == findOneLicense(licenseId)
           early == bindEntry(licenseId, deviceId, lic)
       IN  procs' = [procs EXCEPT ![p] =
                        Proc(IF early = Pending THEN "bind_software" ELSE "done",
                             "bindDeviceToLicense", licenseId, deviceId, <<>>, lic, early)]
    /\ UNCHANGED <<licenses, software, env, owners, last, ledgerVars>>

\* ... up to the await of line 645 (findOne on software) and the checks after it.
BindReadSoftware(p) ==
    /\ procs[p].pc = "bind_software"
    /\ LET lic == procs[p].lic
           check == bindCheck(lic, findOneSoftware(lic.softwareId), procs[p].deviceId)
       IN  procs' = [procs EXCEPT ![p] =
                        IF check # Pending
                        THEN [@ EXCEPT !.pc = "done", !.result = check]
                        ELSE IF bindWrites(lic)
                        THEN [@ EXCEPT !.pc = "bind_update"]
                        ELSE [@ EXCEPT !.pc = "done", !.result = Ok(MsgCorrectlyBound)]]
    /\ UNCHANGED <<licenses, software, env, owners, last, ledgerVars>>

\* ... the updateOne of lines 658-661 and the return.
BindUpdate(p) ==
    /\ procs[p].pc = "bind_update"
    /\ licenses' = updateOneLicense(licenses, procs[p].licenseId,
                                    bindWrite(findOneLicense(procs[p].licenseId),
                                              procs[p].deviceId))
    /\ procs' = [procs EXCEPT ![p] =
                    [@ EXCEPT !.pc = "done",
                              !.result = bindFinish(procs[p].lic, licenses,
                                                    procs[p].licenseId, procs[p].deviceId)]]
    /\ UNCHANGED <<software, env, owners, last, ledgerVars>>

\* getDecryptionKey up to the await of line 729 (findOne on licenses) and the
\* status check after it.
KeyStart(p, licenseId, deviceId, walletAddress) ==
    /\ procs[p].pc = "idle"
    /\ LET lic == findOneLicense(licenseId)
           early == gdkEntry(licenseId, deviceId, walletAddress, lic)
       IN  procs' = [procs EXCEPT ![p] =
                        Proc(IF early = Pending THEN "key_software" ELSE "done",
                             "getDecryptionKey", licenseId, deviceId, walletAddress,
                             lic, early)]
    /\ UNCHANGED <<licenses, software, env, owners, last, ledgerVars>>

\* ... up to the await of line 740 (findOne on software).
KeyReadSoftware(p) ==
    /\ procs[p].pc = "key_software"
    /\ LET sw == findOneSoftware(procs[p].lic.softwareId)
       IN  procs' = [procs EXCEPT ![p] =
                        IF gdkSoftware(sw) # Pending
                        THEN Finish(p, licenses, gdkSoftware(sw))
                        ELSE [@ EXCEPT !.pc = "key_owner", !.sw = sw]]
    /\ UNCHANGED <<licenses, software, env, owners, last, ledgerVars>>

\* Line 750: the ledger answers contract.ownerOf (or the query fails).
KeyOwnerOf(p) ==
    /\ procs[p].pc = "key_owner"
    /\ \E resp \in OwnerOfResponses(procs[p].lic.tokenId) :
           procs' = [procs EXCEPT ![p] = [@ EXCEPT !.pc = "key_reply", !.resp = resp]]
    /\ UNCHANGED <<licenses, software, env, owners, last, ledgerVars>>

\* Lines 750-780: the answer arrives; the comparisons and the return, or the
\* way into the update of lines 757-760.
KeyReply(p) ==
    /\ procs[p].pc = "key_reply"
    /\ procs' = [procs EXCEPT ![p] =
                    IF gdkDrift(procs[p].resp)
                    THEN [@ EXCEPT !.pc = "key_drift"]
                    ELSE Finish(p, licenses,
                                gdkChain(procs[p].lic, procs[p].sw, procs[p].deviceId,
                                         procs[p].walletAddress, procs[p].resp))]
    /\ UNCHANGED <<licenses, software, env, owners, last, ledgerVars>>

\* Lines 757-761: the updateOne that records the burn, and the return.
KeyDriftUpdate(p) ==
    /\ procs[p].pc = "key_drift"
    /\ \E date \in Dates :
           LET store == updateOneLicense(licenses, procs[p].licenseId,
                            gdkDriftWrite(findOneLicense(procs[p].licenseId), date))
           IN  /\ licenses' = store
               /\ procs' = [procs EXCEPT ![p] = Finish(p, store, Fail(MsgBurned))]
    /\ UNCHANGED <<software, env, owners, last, ledgerVars>>

\* revokeLicense up to the await of line 834 (findOne on licenses).
RevokeStart(p, licenseId) ==
    /\ procs[p].pc = "idle"
    /\ LET lic == findOneLicense(licenseId)
           early == revokeEntry(licenseId, lic)
       IN  procs' = [procs EXCEPT ![p] =
                        Proc(IF early = Pending THEN "revoke_tx" ELSE "done",
                             "revokeLicense", licenseId, "", <<>>, lic, early)]
    /\ UNCHANGED <<licenses, software, env, owners, last, ledgerVars>>

\* Lines 844-845: the transaction and its confirmation.
RevokeTx(p) ==
    /\ procs[p].pc = "revoke_tx"
    /\ \E tx \in TxOutcomes :
           /\ owners' = revokeLedger(procs[p].lic.tokenId, tx)
           /\ procs' = [procs EXCEPT ![p] =
                           IF revokeConfirmed(procs[p].lic.tokenId, tx)
                           THEN [@ EXCEPT !.pc = "revoke_update",
                                          !.resp = TxResponse(tx)]
                           ELSE [Finish(p, licenses,
                                        revokeFinish(procs[p].lic.tokenId, tx))
                                    EXCEPT !.resp = TxResponse(tx)]]
    /\ UNCHANGED <<licenses, software, env, last, ledgerVars>>

\* Lines 847-852: the updateOne and the return.
RevokeUpdate(p) ==
    /\ procs[p].pc = "revoke_update"
    /\ LET store == updateOneLicense(licenses, procs[p].licenseId,
                                     revokeWrite(findOneLicense(procs[p].licenseId)))
       IN  /\ licenses' = store
           /\ procs' = [procs EXCEPT ![p] =
                           Finish(p, store, Ok(MsgRevoked(procs[p].lic.tokenId)))]
    /\ UNCHANGED <<software, env, owners, last, ledgerVars>>

\* The delete-by-buyer route up to the await of lines 381-384 (findOne).
DeleteStart(p, licenseId, walletAddress) ==
    /\ procs[p].pc = "idle"
    /\ LET lic == findOneLicenseOfBuyer(licenseId, walletAddress)
           early == deleteEntry(licenseId, walletAddress, lic)
       IN  procs' = [procs EXCEPT ![p] =
                        Proc(IF early = Pending THEN "delete_update" ELSE "done",
                             "deleteByBuyer", licenseId, "", walletAddress, lic, early)]
    /\ UNCHANGED <<licenses, software, env, owners, last, ledgerVars>>

\* Lines 390-399: the updateOne and the response.
DeleteUpdate(p) ==
    /\ procs[p].pc = "delete_update"
    /\ LET store == updateOneLicense(licenses, procs[p].licenseId,
                                     deleteWrite(findOneLicense(procs[p].licenseId)))
       IN  /\ licenses' = store
           /\ procs' = [procs EXCEPT ![p] =
                           Finish(p, store, deleteFinish(licenses, procs[p].licenseId))]
    /\ UNCHANGED <<software, env, owners, last, ledgerVars>>

\* reactivateLicense up to the await of line 873 (findOne on licenses) and the
\* check of lines 878-880.
ReactivateStart(p, licenseId) ==
    /\ procs[p].pc = "idle"
    /\ LET lic == findOneLicense(licenseId)
           early == reactivateEntry(licenseId, lic)
       IN  procs' = [procs EXCEPT ![p] =
                        Proc(IF early = Pending THEN "reactivate_update" ELSE "done",
                             "reactivateLicense", licenseId, "", <<>>, lic, early)]
    /\ UNCHANGED <<licenses, software, env, owners, last, ledgerVars>>

\* Lines 882-887: the updateOne and the return.
ReactivateUpdate(p) ==
    /\ procs[p].pc = "reactivate_update"
    /\ LET store == updateOneLicense(licenses, procs[p].licenseId,
                                     reactivateWrite(findOneLicense(procs[p].licenseId)))
       IN  /\ licenses' = store
           /\ procs' = [procs EXCEPT ![p] = Finish(p, store, Ok(MsgReactivated))]
    /\ UNCHANGED <<software, env, owners, last, ledgerVars>>

\* The caller has taken the result.
Return(p) ==
    /\ procs[p].pc = "done"
    /\ procs' = [procs EXCEPT ![p] = IdleProc]
    /\ UNCHANGED <<licenses, software, env, owners, last, ledgerVars>>

\* Interleavings matter for calls that reach the stored license: the server
\* is configured and the software document carries its key material.
InitConc ==
    /\ Init
    /\ env.rpcUrl /\ env.sellerKey
    /\ software \in SoftwareDocs
    /\ software.decryptionKey # "" /\ software.fileUrl # ""

ConcKeyRequests == LicenseIds \X DeviceIds \X {<<"a", "b">>, <<"c", "d">>}

NextConc ==
    \/ \E p \in Procs, r \in BindRequests : BindStart(p, r[1], r[2])
    \/ \E p \in Procs : BindReadSoftware(p)
    \/ \E p \in Procs : BindUpdate(p)
    \/ \E p \in Procs, r \in ConcKeyRequests : KeyStart(p, r[1], r[2], r[3])
    \/ \E p \in Procs : KeyReadSoftware(p)
    \/ \E p \in Procs : KeyOwnerOf(p)
    \/ \E p \in Procs : KeyReply(p)
    \/ \E p \in Procs : KeyDriftUpdate(p)
    \/ \E p \in Procs, l \in LicenseIds : RevokeStart(p, l)
    \/ \E p \in Procs : RevokeTx(p)
    \/ \E p \in Procs : RevokeUpdate(p)
    \/ \E p \in Procs, l \in LicenseIds : DeleteStart(p, l, Holder)
    \/ \E p \in Procs : DeleteUpdate(p)
    \/ \E p \in Procs, l \in LicenseIds : ReactivateStart(p, l)
    \/ \E p \in Procs : ReactivateUpdate(p)
    \/ \E p \in Procs : Return(p)

SpecConc == InitConc /\ [][NextConc]_vars

----------------------------------------------------------------------------
(* Progress of getDecryptionKey.  The server's own steps are taken once     *)
(* they are enabled; the answer of the ledger is the ledger's step, and     *)
(* getDecryptionKey gives contract.ownerOf no timeout (auth.ts 746-750), so *)
(* nothing obliges that step to happen.                                     *)

NextLive ==
    \/ \E p \in Procs, r \in ConcKeyRequests : KeyStart(p, r[1], r[2], r[3])
    \/ \E p \in Procs : KeyReadSoftware(p)
    \/ \E p \in Procs : KeyOwnerOf(p)
    \/ \E p \in Procs : KeyReply(p)
    \/ \E p \in Procs : KeyDriftUpdate(p)
    \/ \E t \in TokenIds : ContractRevokeLicense(ContractOwner, t)
    \/ \E p \in Procs : Return(p)

ServerFairness ==
    \A p \in Procs :
        /\ WF_vars(KeyReadSoftware(p))
        /\ WF_vars(KeyReply(p))
        /\ WF_vars(KeyDriftUpdate(p))

SpecLive == InitConc /\ [][NextLive]_vars /\ ServerFairness

----------------------------------------------------------------------------
(* The purchase flow (marketplace/page.tsx, handleBuyLicense) and           *)
(* recordLicensePurchase (auth.ts 504-539).  The buyer's wallet signs the   *)
(* mint, the flow waits for the receipt, reads the token id from its        *)
(* Transfer event and then has the server insert the license.               *)


Buyers == {ContractOwner, Holder}

\* The _id insertOne gives the new document: one no stored license has.
FreeObjectIds(store) == {l \in LicenseIds : store[l] = NoLicense}
NewObjectId(store) == CHOOSE l \in LicenseIds : store[l] = NoLicense

\* auth.ts 520-530.
newLicense(id, sw, buyerAddress, tokenId) ==
    [id |-> id, softwareId |-> sw.id, buyerAddress |-> toLowerCase(buyerAddress),
     tokenId |-> tokenId, deviceId |-> "", status |-> "active",
     reason |-> Absent, lastViolationDate |-> NoDate]

\* auth.ts 507-518.
recordEntry(softwareId, buyerAddress, sw) ==
    IF softwareId = "" \/ buyerAddress = <<>> THEN Fail(<<"Missing required license data.">>)
    ELSE IF sw = NoSoftware THEN Fail(<<"The purchased software does not exist.">>)
    ELSE Pending

\* auth.ts 532.
insertOneLicense(store, doc) == [store EXCEPT ![doc.id] = doc]

\* mintConfirmed for a flow that goes on whatever mintTx.wait() does.
mintConfirmed_IgnoresWait(buyer, tx) == tx # "send_error"

\* page.tsx 310-315: does the flow get past mintTx.wait() with a receipt that
\* has logs?  wait() throws for a reverted transaction, and a reverted
\* transaction has no logs.
mintConfirmed(buyer, tx) == tx = "confirmed" /\ mintLicense(buyer, buyer).ok

\* page.tsx 310-311: the ledger as the mined transaction leaves it.
mintLedger(buyer) == mintLicense(buyer, buyer)

\* handleBuyLicense up to the send of the mint (page.tsx 214-310): the wallet,
\* the payment and the metadata upload have gone through.  The store of the
\* model has room for LicenseIds only, so a purchase starts while an id is free
\* and no other purchase is under way.
BuyStart(p, buyer) ==
    /\ procs[p].pc = "idle"
    /\ software # NoSoftware
    /\ FreeObjectIds(licenses) # {}
    /\ \A q \in Procs : procs[q].op # "purchase"
    /\ nextTokenId < MaxTokens
    /\ procs' = [procs EXCEPT ![p] =
                    [Proc("buy_mint", "purchase", "", "", buyer, NoLicense, Pending)
                        EXCEPT !.sw = software]]
    /\ UNCHANGED <<licenses, software, env, owners, last, ledgerVars>>

\* page.tsx 310: contract.mintLicense(...) hands the transaction to the
\* wallet; it is sent, or the call throws.
BuyMint(p) ==
    /\ procs[p].pc = "buy_mint"
    /\ \E sent \in BOOLEAN :
           procs' = [procs EXCEPT ![p] =
                        IF sent THEN [@ EXCEPT !.pc = "buy_wait"]
                        ELSE [Finish(p, licenses, Fail(<<"Purchase Failed", "network error">>))
                                 EXCEPT !.resp = TxResponse("send_error")]]
    /\ UNCHANGED <<licenses, software, env, owners, last, ledgerVars>>

\* page.tsx 311-329: the transaction is mined and mintTx.wait() settles; the
\* token id is the one of the Transfer event.  Until this step the mint is
\* unconfirmed and the flow stays at line 311.
BuyWait(p) ==
    /\ procs[p].pc = "buy_wait"
    /\ nextTokenId < MaxTokens
    /\ \E tx \in TxOutcomes \ {"send_error"} :
           LET buyer == procs[p].walletAddress
               outcome == mintLedger(buyer)
           IN  /\ owners' = outcome.owners
               /\ nextTokenId' = IF outcome.ok THEN nextTokenId + 1 ELSE nextTokenId
               /\ procs' = [procs EXCEPT ![p] =
                               IF mintConfirmed(buyer, tx)
                               THEN [@ EXCEPT !.pc = "buy_record",
                                              !.resp = TxResponse(tx),
                                              !.lic = [NoLicense EXCEPT
                                                          !.tokenId = nextTokenId]]
                               ELSE [Finish(p, licenses,
                                            Fail(<<"Purchase Failed",
                                                   IF outcome.ok THEN "timeout"
                                                   ELSE outcome.reason>>))
                                        EXCEPT !.resp = TxResponse(tx)]]
    /\ UNCHANGED <<licenses, software, env, last, variant, isLicenseBlocked,
                   licenseIpLock>>

\* page.tsx 331-349: recordLicensePurchase with the data of the receipt.
BuyRecord(p) ==
    /\ procs[p].pc = "buy_record"
    /\ FreeObjectIds(licenses) # {}
    /\ LET sw == findOneSoftware(procs[p].sw.id)
           early == recordEntry(procs[p].sw.id, procs[p].walletAddress, sw)
           doc == newLicense(NewObjectId(licenses), sw, procs[p].walletAddress,
                             procs[p].lic.tokenId)
           store == IF early = Pending THEN insertOneLicense(licenses, doc)
                    ELSE licenses
       IN  /\ licenses' = store
           /\ procs' = [procs EXCEPT ![p] =
                           [Finish(p, store,
                                   IF early = Pending THEN Ok(<<"License purchase recorded successfully.">>)
                                   ELSE early)
                               EXCEPT !.licenseId = IF early = Pending THEN doc.id ELSE "",
                                      !.lic = IF early = Pending THEN doc ELSE @]]
    /\ UNCHANGED <<software, env, owners, last, ledgerVars>>

\* Nothing sold yet; either copy of the contract is deployed.
InitPurchase ==
    /\ licenses = [l \in LicenseIds |-> NoLicense]
    /\ software \in SoftwareDocs
    /\ env = [rpcUrl |-> TRUE, sellerKey |-> TRUE]
    /\ owners = [t \in TokenIds |-> ZeroAddress]
    /\ last = NoCall
    /\ procs = [p \in Procs |-> IdleProc]
    /\ variant \in Variants
    /\ nextTokenId = 0
    /\ isLicenseBlocked = [t \in TokenIds |-> FALSE]
    /\ licenseIpLock = [t \in TokenIds |-> ""]

\* Purchases, with the contract owner minting to another account and
\* revoking tokens meanwhile.
NextPurchase ==
    \/ \E p \in Procs, b \in Buyers : BuyStart(p, b)
    \/ \E p \in Procs : BuyMint(p)
    \/ \E p \in Procs : BuyWait(p)
    \/ \E p \in Procs : BuyRecord(p)
    \/ MintLicense(ContractOwner, Other, "")
    \/ \E t \in TokenIds : ContractRevokeLicense(ContractOwner, t)
    \/ \E p \in Procs : Return(p)

SpecPurchase == InitPurchase /\ [][NextPurchase]_vars

----------------------------------------------------------------------------
(* Properties of the sequential specification.  `last` holds the call just  *)
(* completed: its arguments, the Registry and ledger before it, the answer  *)
(* of the ownership query and the result returned.                          *)

KeyCall(l) == last.op = "getDecryptionKey" /\ last.licenseId = l
BindCall(l) == last.op = "bindDeviceToLicense" /\ last.licenseId = l
ReactivateCall(l) == last.op = "reactivateLicense" /\ last.licenseId = l

\* Device locking is enabled in the software the license references.
DeviceLocked(l) == findOneSoftware(last.before[l].softwareId).fingerprintLock

\* The requester is the holder the ledger records, up to case.
RequesterHolds(l) ==
    toLowerCase(last.ownersBefore[last.before[l].tokenId]) = toLowerCase(last.walletAddress)

\* C1: getDecryptionKey on a license whose Registry status is not 'active'
\* (blocked, revoked, deleted_by_user) returns a denial and no key, whoever
\* asks, from whichever device and whatever the ledger holds.
C1_NotActiveYieldsNoKey ==
    \A l \in LicenseIds :
        (KeyCall(l) /\ last.before[l].status # "active")
            => (~last.result.success /\ last.result.key = "")

\* A blocked license, asked for by the ledger holder from the bound device.
C1_Witness ==
    \E l \in LicenseIds :
        /\ KeyCall(l)
        /\ last.before[l].status = "blocked"
        /\ last.before[l].deviceId = last.deviceId
        /\ RequesterHolds(l)
        /\ env.rpcUrl /\ software \in SoftwareDocs
        /\ ~last.result.success

\* C2: while a license's Registry status is 'revoked', every reactivateLicense
\* and every getDecryptionKey call for it fails and leaves it 'revoked'; so no
\* sequence of such calls after a revocation contains a success.
C2_RevokedCallsFail ==
    \A l \in LicenseIds :
        ((KeyCall(l) \/ ReactivateCall(l)) /\ last.before[l].status = "revoked")
            => (~last.result.success /\ licenses[l].status = "revoked")

C2_Witness ==
    \E l \in LicenseIds :
        /\ ReactivateCall(l)
        /\ last.before[l].status = "revoked"
        /\ last.result = Fail(MsgCannotReactivate)

\* C3: no operation changes a license's status from 'revoked' to another value.
C3_RevokedIsTerminal ==
    \A l \in LicenseIds :
        last.before[l].status = "revoked" => licenses[l].status = "revoked"

\* C4: with device locking enabled and a device stored on the license, a
\* bindDeviceToLicense with another deviceId fails with the device-mismatch
\* result and the stored deviceId stays as it was.
C4_BoundDeviceIsKept ==
    \A l \in LicenseIds :
        (/\ BindCall(l)
         /\ DeviceLocked(l)
         /\ last.before[l].deviceId # ""
         /\ last.deviceId # ""
         /\ last.deviceId # last.before[l].deviceId)
            => (/\ last.result = Fail(MsgAlreadyBound)
                /\ licenses[l].deviceId = last.before[l].deviceId)

C4_Witness ==
    \E l \in LicenseIds :
        /\ BindCall(l)
        /\ DeviceLocked(l)
        /\ last.before[l].deviceId = "dev1"
        /\ last.deviceId = "dev2"
        /\ licenses[l].deviceId = "dev1"

\* C6: a getDecryptionKey whose ownership query is answered with token
\* non-existence while the Registry status is 'active' returns a denial and
\* leaves the Registry status 'revoked'.
C6_DriftIsCorrected ==
    \A l \in LicenseIds :
        (KeyCall(l) /\ last.before[l].status = "active" /\ last.resp.kind = "revert")
            => (~last.result.success /\ licenses[l].status = "revoked")

C6_Witness ==
    \E l \in LicenseIds :
        /\ KeyCall(l)
        /\ last.before[l].status = "active"
        /\ last.ownersBefore[last.before[l].tokenId] = ZeroAddress
        /\ last.resp.kind = "revert"
        /\ last.result = Fail(MsgBurned)

\* C7: getDecryptionKey returns a key only if the ledger's holder of the token
\* equals the requester's address up to case; when the holder differs it
\* returns the not-owner denial and the license document is unchanged.
C7_OnlyHolderGetsKey ==
    \A l \in LicenseIds :
        KeyCall(l) =>
            /\ last.result.success =>
                   (/\ last.resp.kind = "ok"
                    /\ last.resp.owner = last.ownersBefore[last.before[l].tokenId]
                    /\ RequesterHolds(l))
            /\ (last.resp.kind = "ok" /\ ~RequesterHolds(l)) =>
                   (last.result = Fail(MsgNotOwner) /\ licenses[l] = last.before[l])

\* A key released to the holder's address written in another case.
C7_Witness ==
    \E l \in LicenseIds :
        /\ KeyCall(l)
        /\ last.result.success
        /\ last.walletAddress # last.resp.owner

\* C8: after a getDecryptionKey denied for device mismatch, the license's
\* Registry status is 'blocked' and a reason is recorded.
C8_MismatchBlocks ==
    \A l \in LicenseIds :
        (KeyCall(l) /\ last.result.message = MsgDeviceMismatch)
            => (licenses[l].status = "blocked" /\ licenses[l].reason # Absent)

\* C9: with device locking enabled, getDecryptionKey returns a key only if the
\* deviceId stored on the license equals the deviceId of the request.
C9_KeyOnlyForStoredDevice ==
    \A l \in LicenseIds :
        (KeyCall(l) /\ DeviceLocked(l) /\ last.result.success)
            => last.before[l].deviceId = last.deviceId

\* C9 as amended: with device locking enabled, getDecryptionKey returns a key
\* only if the license has no deviceId stored or the stored deviceId equals
\* the deviceId of the request.
C9_KeyOnlyForStoredOrNoDevice ==
    \A l \in LicenseIds :
        (KeyCall(l) /\ DeviceLocked(l) /\ last.result.success)
            => (last.before[l].deviceId = "" \/ last.before[l].deviceId = last.deviceId)

\* A key released for the device the license is bound to.
C9_Witness ==
    \E l \in LicenseIds :
        /\ KeyCall(l)
        /\ DeviceLocked(l)
        /\ last.result.success
        /\ last.before[l].deviceId # ""
        /\ last.before[l].deviceId = last.deviceId

\* C10: when the ownership query fails for another reason than token
\* non-existence, getDecryptionKey returns the could-not-verify denial and the
\* license document (status, reason, deviceId, lastViolationDate) is unchanged.
C10_TransientFailureLeavesLicense ==
    \A l \in LicenseIds :
        (KeyCall(l) /\ last.resp.kind = "error")
            => (/\ last.result = Fail(MsgCouldNotVerify)
                /\ licenses[l] = last.before[l])

\* The query fails in transport while the token is in fact burned.
C10_Witness ==
    \E l \in LicenseIds :
        /\ KeyCall(l)
        /\ last.resp.kind = "error"
        /\ last.ownersBefore[last.before[l].tokenId] = ZeroAddress
        /\ licenses[l].status = "active"

----------------------------------------------------------------------------
(* Properties of the interleaved specification                              *)

\* Call p is a bindDeviceToLicense on license l that has returned.
BindDone(p, l) ==
    /\ procs[p].pc = "done"
    /\ procs[p].op = "bindDeviceToLicense"
    /\ procs[p].licenseId = l

\* C5: two bindDeviceToLicense calls that both read the same device-locked
\* license as unbound and carry different deviceIds do not both return success.
C5_ConcurrentFirstBindsExclude ==
    \A l \in LicenseIds : \A p, q \in Procs :
        (/\ BindDone(p, l) /\ BindDone(q, l)
         /\ findOneSoftware(licenses[l].softwareId).fingerprintLock
         /\ procs[p].lic.deviceId = "" /\ procs[q].lic.deviceId = ""
         /\ procs[p].deviceId # procs[q].deviceId)
            => ~(procs[p].result.success /\ procs[q].result.success)

----------------------------------------------------------------------------
(* Properties of the get-key endpoint                                       *)

\* The ownership query was sent and failed in transport.
LedgerUnreachable == last.resp.kind = "error"

\* The server lacks its RPC address, or the software lacks its key material.
Misconfigured == last.result.message \in {MsgNoRpc, MsgNoKeyMaterial}

\* C11: a key request denied because the ledger could not be reached, or
\* because configuration is missing (no RPC address, no key material), is
\* answered with status 500 and never with 403.
C11_InfrastructureDenialIs500 ==
    (last.op = "getDecryptionKey" /\ ~last.result.success
        /\ (LedgerUnreachable \/ Misconfigured))
    => last.http = HttpServerError

\* C12: a key request denied for a device mismatch or because the requester
\* is not the ledger holder is answered with status 403.
C12_AuthorizationDenialIs403 ==
    (last.op = "getDecryptionKey"
        /\ last.result.message \in {MsgDeviceMismatch, MsgNotOwner})
    => last.http = HttpForbidden

----------------------------------------------------------------------------
(* Properties of revocation and reactivation                                *)

RevokeCall(l) == last.op = "revokeLicense" /\ last.licenseId = l

\* The ledger transaction of the call was attempted and did not confirm: it
\* could not be sent, its confirmation threw, or the contract reverted.
RevokeTxFailed(l) ==
    \/ last.resp.kind \in {"send_error", "wait_error"}
    \/ /\ last.resp.kind = "confirmed"
       /\ last.ownersBefore[last.before[l].tokenId] = ZeroAddress

\* C13: when the ledger revoke call of revokeLicense fails (sending or
\* confirming the transaction throws), revokeLicense returns failure and the
\* Registry is as it was before the call.
C13_FailedBurnLeavesRegistry ==
    \A l \in LicenseIds :
        (RevokeCall(l) /\ RevokeTxFailed(l))
        => (~last.result.success /\ licenses = last.before)

\* A confirmation that threw after the burn was mined: the call failed and
\* the Registry still holds the former status.
C13_Witness ==
    \E l \in LicenseIds :
        /\ RevokeCall(l) /\ last.resp.kind = "wait_error"
        /\ last.ownersBefore[last.before[l].tokenId] # ZeroAddress
        /\ owners[last.before[l].tokenId] = ZeroAddress
        /\ ~last.result.success /\ licenses[l].status = "active"

\* C14: a license whose status is 'revoked' has a ledger token without
\* holder, and a call sets the status to 'revoked' only after its burn was
\* confirmed or after the ledger answered that the token does not exist.
C14_RevokedMeansBurned ==
    \A l \in LicenseIds :
        /\ licenses[l].status = "revoked" => owners[licenses[l].tokenId] = ZeroAddress
        /\ (licenses[l].status = "revoked" /\ last.before[l].status # "revoked")
           => \/ RevokeCall(l) /\ last.resp.kind = "confirmed" /\ last.result.success
              \/ KeyCall(l) /\ last.resp.kind = "revert"

\* revokeLicense has just burned a held token and recorded the revocation.
C14_Witness ==
    \E l \in LicenseIds :
        /\ RevokeCall(l) /\ last.result.success
        /\ last.ownersBefore[last.before[l].tokenId] = Holder
        /\ last.before[l].status = "active"
        /\ licenses[l].status = "revoked"
        /\ owners[licenses[l].tokenId] = ZeroAddress

\* C15: reactivateLicense succeeds only for a license whose status is
\* 'blocked', which becomes 'active'; for status 'revoked' it fails with the
\* already-revoked error and for 'deleted_by_user' it fails, both leaving the
\* license as it was.
C15_ReactivatesOnlyBlocked ==
    \A l \in LicenseIds :
        ReactivateCall(l) =>
            /\ last.result.success
               => (last.before[l].status = "blocked" /\ licenses[l].status = "active")
            /\ last.before[l].status = "revoked"
               => (last.result = Fail(MsgCannotReactivate) /\ licenses = last.before)
            /\ last.before[l].status = "deleted_by_user"
               => (~last.result.success /\ licenses = last.before)

----------------------------------------------------------------------------
(* Properties of the ledger contract.  `last` holds the transaction just    *)
(* processed: its arguments, its outcome and the ledger before it.          *)

\* Token t was minted before the transaction and had no holder: it was burned.
WasBurned(t) == t < last.nextBefore /\ last.ownersBefore[t] = ZeroAddress

\* C16: the holder of a minted token changes only to the zero address (burn);
\* every attempt to move a token to another holder reverts and leaves the
\* holders unchanged; a burned token never has a holder again.
C16_TokensAreSoulbound ==
    /\ \A t \in TokenIds :
          /\ last.ownersBefore[t] # ZeroAddress
             => owners[t] \in {last.ownersBefore[t], ZeroAddress}
          /\ WasBurned(t) => owners[t] = ZeroAddress
    /\ (last.op = "contract.transferFrom" /\ last.to # ZeroAddress)
       => (~last.result.success /\ owners = last.ownersBefore)

\* The holder of a token has just tried to transfer it to another account.
C16_Witness ==
    /\ last.op = "contract.transferFrom" /\ last.to = Other
    /\ last.ownersBefore[last.tokenId] = Holder /\ last.walletAddress = Holder
    /\ \E t \in TokenIds : WasBurned(t)
    /\ owners[last.tokenId] = Holder

\* C17: blockLicense for a token that does not exist fails and changes
\* nothing.
C17_BlockNeedsToken ==
    (last.op = "contract.blockLicense" /\ last.ownersBefore[last.tokenId] = ZeroAddress)
    => (~last.result.success /\ isLicenseBlocked = last.blockedBefore)

\* C18: mintLicense fails for every caller but the contract owner; called by
\* the contract owner for a buyer it succeeds, makes the buyer the holder
\* and returns the next token id in sequence; ids are unique and never used
\* again, also after burns.
C18_MintIsPrivilegedAndSequential ==
    /\ (last.op = "contract.mintLicense" /\ last.walletAddress # ContractOwner)
       => (~last.result.success /\ owners = last.ownersBefore /\ nextTokenId = last.nextBefore)
    /\ (last.op = "contract.mintLicense" /\ last.walletAddress = ContractOwner /\ last.to # ZeroAddress)
       => /\ last.result.success
          /\ owners[last.tokenId] = last.to
          /\ last.tokenId = last.nextBefore
          /\ nextTokenId = last.nextBefore + 1
          /\ last.ownersBefore[last.tokenId] = ZeroAddress
    /\ \A t \in TokenIds : owners[t] # ZeroAddress => t < nextTokenId
    /\ nextTokenId >= last.nextBefore

----------------------------------------------------------------------------
(* Determinism of the key release                                           *)

\* This step is a getDecryptionKey call that repeats the call before it: the
\* same arguments, the same Registry, software record, environment and
\* ledger, and the same answer of the ownership query.
RepeatsKeyCall ==
    /\ last.op = "getDecryptionKey" /\ last'.op = "getDecryptionKey"
    /\ last'.licenseId = last.licenseId
    /\ last'.deviceId = last.deviceId
    /\ last'.walletAddress = last.walletAddress
    /\ last'.before = last.before
    /\ last'.ownersBefore = last.ownersBefore
    /\ last'.resp = last.resp
    /\ software' = software /\ env' = env

----------------------------------------------------------------------------
(* Properties of the interleaved key release                                *)

\* The getDecryptionKey call of p has produced a key.
KeyReleased(p) ==
    /\ procs[p].op = "getDecryptionKey" /\ procs[p].pc = "done"
    /\ procs[p].result.success

\* C20: when getDecryptionKey runs concurrently with revokeLicense or with the
\* buyer's soft-delete of the same license, the Registry status is 'active'
\* at the moment getDecryptionKey returns a key, in every interleaving.
C20_KeyOnlyWhileActive ==
    \A p \in Procs : KeyReleased(p) => procs[p].statusAtReturn = "active"

----------------------------------------------------------------------------
(* Properties of interleaved status writes                                  *)

\* C21: status writes are compare-and-set on the status that was read: a
\* reactivateLicense that read 'blocked' before a revocation (by
\* revokeLicense or by the drift correction of getDecryptionKey) was written
\* does not overwrite 'revoked' with 'active'.
C21_ReactivateKeepsRevoked ==
    [][\A p \in Procs :
          (/\ procs[p].pc = "reactivate_update" /\ procs'[p].pc = "done"
           /\ procs[p].lic.status = "blocked"
           /\ licenses[procs[p].licenseId].status = "revoked")
          => licenses'[procs[p].licenseId].status = "revoked"]_vars

----------------------------------------------------------------------------
(* Frame properties of the sequential specification                         *)

\* C22: a successful reactivateLicense sets the status to 'active', removes
\* reason and lastViolationDate, and leaves deviceId, buyerAddress and
\* tokenId as they were: a license bound before it was blocked is bound to
\* the same device after reactivation.
C22_ReactivateKeepsBinding ==
    \A l \in LicenseIds :
        (ReactivateCall(l) /\ last.result.success) =>
            /\ licenses[l].status = "active"
            /\ licenses[l].reason = Absent
            /\ licenses[l].lastViolationDate = NoDate
            /\ licenses[l].deviceId = last.before[l].deviceId
            /\ licenses[l].buyerAddress = last.before[l].buyerAddress
            /\ licenses[l].tokenId = last.before[l].tokenId

\* A blocked license bound to a device has been reactivated.
C22_Witness ==
    \E l \in LicenseIds :
        /\ ReactivateCall(l) /\ last.result.success
        /\ last.before[l].status = "blocked"
        /\ last.before[l].reason # Absent
        /\ last.before[l].deviceId \in DeviceIds
        /\ licenses[l].deviceId = last.before[l].deviceId
        /\ licenses[l].status = "active"

C24_RebindSameDeviceIsNoOp ==
    \A l \in LicenseIds :
        (BindCall(l) /\ last.deviceId \in DeviceIds
            /\ last.before[l].deviceId = last.deviceId)
        => (last.result.success /\ licenses = last.before)

\* The device a license is bound to has just been bound again.
C24_Witness ==
    \E l \in LicenseIds :
        /\ BindCall(l) /\ last.before[l].deviceId = "dev1" /\ last.deviceId = "dev1"
        /\ last.result = Ok(MsgCorrectlyBound)
        /\ licenses[l].deviceId = "dev1"

----------------------------------------------------------------------------
(* Properties of the bind endpoint                                          *)

\* C25: a bind rejected for device mismatch is answered by the bind endpoint
\* with status 409, every other bind failure the endpoint passes on with
\* status 500, and the rejected bind leaves the license's status and
\* deviceId unchanged.
C25_MismatchIsConflict ==
    \A l \in RequestLicenseIds :
        (BindCall(l) /\ ~last.result.success /\ last.http # HttpBadRequest) =>
            /\ last.result.message = MsgAlreadyBound
               => (last.http = HttpConflict /\ licenses = last.before)
            /\ last.result.message # MsgAlreadyBound
               => last.http = HttpServerError

\* A bind for a second device has been rejected with status 409.
C25_Witness ==
    \E l \in LicenseIds :
        /\ BindCall(l) /\ last.result = Fail(MsgAlreadyBound)
        /\ last.before[l].deviceId = "dev1" /\ last.deviceId = "dev2"
        /\ last.http = HttpConflict
        /\ licenses[l].deviceId = "dev1"

----------------------------------------------------------------------------
(* Repeated revocation                                                      *)

\* C26: revokeLicense for a license whose status is already 'revoked', or
\* retried after an earlier revoke burned the token, returns failure and
\* changes neither the Registry nor the ledger: a token is burned at most
\* once.
C26_RevokeAgainFails ==
    \A l \in LicenseIds :
        (RevokeCall(l)
            /\ (\/ last.before[l].status = "revoked"
                \/ last.ownersBefore[last.before[l].tokenId] = ZeroAddress))
        => (~last.result.success /\ licenses = last.before
            /\ owners = last.ownersBefore)

\* The retry of a revoke whose burn was mined but whose confirmation threw:
\* the contract reverts and the call fails.
C26_Witness ==
    \E l \in LicenseIds :
        /\ RevokeCall(l) /\ last.resp.kind = "confirmed"
        /\ last.ownersBefore[last.before[l].tokenId] = ZeroAddress
        /\ last.before[l].status = "active"
        /\ last.result = Fail(MsgRevokeFailed("ERC721: token nonexistent"))

----------------------------------------------------------------------------
(* Validation by the ledger contract                                        *)

\* C27: for every existing token and every supplied locality string,
\* validateLicense returns true exactly when the token is not blocked and its
\* locality lock is empty or equal to the supplied string; the call changes
\* no ledger state.
C27_ValidateLicenseDecides ==
    (last.op = "contract.validateLicense"
        /\ last.ownersBefore[last.tokenId] # ZeroAddress)
    => /\ last.result.success
       /\ last.returned
          <=> (/\ ~last.blockedBefore[last.tokenId]
               /\ \/ last.ipLockBefore[last.tokenId] = ""
                  \/ last.ipLockBefore[last.tokenId] = last.ipAddress)
       /\ owners = last.ownersBefore
       /\ nextTokenId = last.nextBefore
       /\ isLicenseBlocked = last.blockedBefore
       /\ licenseIpLock = last.ipLockBefore

\* A token with a locality lock that is not blocked has been validated with
\* another locality string, and the answer was false.
C27_Witness ==
    /\ last.op = "contract.validateLicense"
    /\ owners[last.tokenId] = Holder
    /\ ~isLicenseBlocked[last.tokenId]
    /\ licenseIpLock[last.tokenId] = "10.0.0.1" /\ last.ipAddress = "10.0.0.2"
    /\ last.result.success /\ ~last.returned

----------------------------------------------------------------------------
(* Termination of the key release                                           *)

KeyCallInFlight(p) ==
    procs[p].pc \in {"key_software", "key_owner", "key_reply", "key_drift"}

\* C28: every getDecryptionKey call eventually returns an outcome, also when
\* the ledger never answers the ownership query.
C28_KeyCallReturns ==
    \A p \in Procs : KeyCallInFlight(p) ~> (procs[p].pc = "done")

----------------------------------------------------------------------------
(* The purchase flow                                                        *)

\* C29: in the purchase flow a license enters the Registry only in the step
\* of a flow whose mint transaction was confirmed, for the token that mint
\* created (minted to the buyer, who may since have lost it to a burn only),
\* and it enters with status 'active' and an empty deviceId.
C29_RecordOnlyAfterConfirmedMint ==
    [][\A l \in LicenseIds :
          (licenses[l] = NoLicense /\ licenses'[l] # NoLicense)
          => /\ licenses'[l].tokenId < nextTokenId
             /\ \E p \in Procs :
                    /\ procs[p].pc = "buy_record"
                    /\ procs[p].resp.kind = "confirmed"
                    /\ procs[p].lic.tokenId = licenses'[l].tokenId
                    /\ licenses'[l].buyerAddress = toLowerCase(procs[p].walletAddress)
                    /\ owners[licenses'[l].tokenId] \in {procs[p].walletAddress, ZeroAddress}
             /\ licenses'[l].status = "active"
             /\ licenses'[l].deviceId = ""]_vars

\* A purchase has ended with the license recorded for the token minted to
\* the buyer.
C29_Witness ==
    \E p \in Procs, l \in LicenseIds :
        /\ procs[p].op = "purchase" /\ procs[p].pc = "done"
        /\ procs[p].result.success
        /\ licenses[l] # NoLicense
        /\ licenses[l].status = "active" /\ licenses[l].deviceId = ""
        /\ owners[licenses[l].tokenId] = procs[p].walletAddress

----------------------------------------------------------------------------
(* The buyer's soft delete                                                  *)

DeleteCall(l) == last.op = "deleteByBuyer" /\ last.licenseId = l

\* Equality of two addresses without regard to case.
SameAddress(a, b) == toLowerCase(a) = toLowerCase(b)

\* C30: delete-by-buyer sets status 'deleted_by_user' only for a wallet
\* address equal, whatever the case, to the license's buyerAddress; for any
\* other address it fails and the license is as before; deviceId,
\* buyerAddress and tokenId are never changed.
C30_DeleteOnlyByBuyer ==
    \A l \in LicenseIds :
        DeleteCall(l) =>
            /\ (licenses[l] # last.before[l] \/ last.result.success)
               => /\ SameAddress(last.walletAddress, last.before[l].buyerAddress)
                  /\ licenses[l].status = "deleted_by_user"
            /\ ~SameAddress(last.walletAddress, last.before[l].buyerAddress)
               => (~last.result.success /\ licenses[l] = last.before[l])
            /\ licenses[l].deviceId = last.before[l].deviceId
            /\ licenses[l].buyerAddress = last.before[l].buyerAddress
            /\ licenses[l].tokenId = last.before[l].tokenId

\* The buyer's address in another case than the stored one has removed a
\* license that is bound to a device.
C30_Witness ==
    \E l \in LicenseIds :
        /\ DeleteCall(l)
        /\ last.walletAddress # last.before[l].buyerAddress
        /\ last.result.success
        /\ last.before[l].status # "deleted_by_user"
        /\ licenses[l].status = "deleted_by_user"
        /\ licenses[l].deviceId # ""

============================================================================
